---- MODULE Spec2Model ----
(***************************************************************************)
(* Model of branching_simulation.py (klezdi/BARW): the Tissue controller   *)
(* and the driver simulation_loop.                                         *)
(*                                                                         *)
(* Quantisation.  Headings are integers in units of a quarter turn, so     *)
(* np.pi is PI == 2 units and the seed heading np.pi/2 is 1 unit.          *)
(* Positions are integers in units of lstep.  The branching probability    *)
(* is an integer number of ProbDen-ths.                                    *)
(*                                                                         *)
(* The module branching_rules (br.branching, br.guidance_avoidance) is     *)
(* imported by the source but its code is not part of the source files;    *)
(* the two kernels are modelled from their description in the              *)
(* specification (sections 4.1 and 4.2).                                   *)
(*                                                                         *)
(* The seed row of angle_list holds the heading np.pi/2 as the source      *)
(* writes it, unconverted (1 quarter turn); every later row holds degrees. *)
(***************************************************************************)
EXTENDS Integers, Sequences, FiniteSets, TLC

\* ---------------------------------------------------------------- bounds
\* largest horizon tmax that is explored
MaxT == 5
\* runs are explored as long as the number of active tips stays within MaxTips
MaxTips == 2

\* largest horizon tmax of the runs explored without a cap on the tips
MaxWideT == 3

\* ------------------------------------------------------------- constants
\* lstep = 1
lstep == 1
\* np.pi in heading units (quarter turns)
PI == 2
\* start_x, start_y = 100.0, 100.0
start_x == 100
start_y == 100
\* denominator of the branching probability: prob stands for prob/ProbDen
ProbDen == 2

\* inputs of simulation_loop that are explored
ProbSet == (0 - 1) .. (ProbDen + 1)
TmaxSet == (0 - 1) .. MaxT
FcSet == {0, 1}
FsSet == {0 - 1, 0}

VARIABLES
    prob, fc, fs, tmax,   \* arguments of simulation_loop
    neuron,               \* the Tissue instance
    coordinates,          \* rows <<x, y, branch, generation>>
    coords_last,
    coords_until,
    angle_list,           \* rows <<heading in degrees, generation>>
    last_tiplength_fin,   \* active-tip count per recorded step
    t,                    \* loop variable of `for t in range(tmax)`
    pc,                   \* position in simulation_loop
    calls,                \* history of the calls made on the controller
    drawn,                \* history of the outcomes drawn, one vector per evolve call
    d                     \* <<>> until the return, then <<the returned dict>>

vars == <<prob, fc, fs, tmax, neuron, coordinates, coords_last, coords_until,
          angle_list, last_tiplength_fin, t, pc, calls, drawn, d>>

\* -------------------------------------------------------- numpy helpers
\* np.sum of a sequence of integers
RECURSIVE np_sum(_)
np_sum(s) == IF s = <<>> THEN 0 ELSE s[1] + np_sum(Tail(s))

\* a[-n:] for n >= 0 (python: -0 is 0, so a[-0:] is the whole array)
SliceLast(a, n) ==
    IF n = 0 \/ n >= Len(a) THEN a
    ELSE SubSeq(a, Len(a) - n + 1, Len(a))

\* a[:-n] for n >= 0 (python: a[:-0] is a[:0], the empty array)
SliceButLast(a, n) ==
    IF n = 0 \/ n >= Len(a) THEN <<>>
    ELSE SubSeq(a, 1, Len(a) - n)

\* np.append(a, b, axis=0)
np_append(a, b) == a \o b

\* np.degrees(h) for a heading in quarter turns
np_degrees(h) == (h * 180) \div PI

\* the last column tip[:,-1] of an array of rows
LastColumn(rows) == [i \in 1..Len(rows) |-> rows[i][Len(rows[i])]]

\* np.column_stack((a, b)) of two columns of equal length
np_column_stack(a, b) == [i \in 1..Len(a) |-> <<a[i], b[i]>>]

\* ---------------------------------------------- kernel (branching_rules)
\* unit step along a heading given in quarter turns
StepX(h) == CASE h % (2 * PI) = 0 -> lstep
              [] h % (2 * PI) = 2 -> 0 - lstep
              [] OTHER -> 0
StepY(h) == CASE h % (2 * PI) = 1 -> lstep
              [] h % (2 * PI) = 3 -> 0 - lstep
              [] OTHER -> 0

Max(S) == CHOOSE m \in S : \A n \in S : n <= m

\* outcomes a tip can draw: "E" elongate, "B" branch, "T" terminate.
\* A Bernoulli draw with probability p branches; termination depends on the
\* geometry and is left open.
Outcomes(p) == {"T"} \cup (IF p > 0 THEN {"B"} ELSE {})
                     \cup (IF p < ProbDen THEN {"E"} ELSE {})

\* number of tips that a vector of outcomes leaves
RECURSIVE NewCount(_)
NewCount(o) == IF o = <<>> THEN 0
               ELSE (CASE o[1] = "E" -> 1 [] o[1] = "B" -> 2 [] OTHER -> 0)
                    + NewCount(Tail(o))

\* the rows and headings produced by tip i and the tips after it;
\* fresh is the next unused branch identifier
RECURSIVE Grow(_, _, _, _, _)
Grow(tip, angle, o, i, fresh) ==
    IF i > Len(tip) THEN [tip |-> <<>>, angle |-> <<>>]
    ELSE LET r == tip[i]
             h == angle[i]
         IN CASE o[i] = "E" ->
                  LET rest == Grow(tip, angle, o, i + 1, fresh)
                  IN [tip |-> <<<<r[1] + StepX(h), r[2] + StepY(h), r[3], r[4]>>>>
                                 \o rest.tip,
                      angle |-> <<h>> \o rest.angle]
              [] o[i] = "B" ->
                  LET rest == Grow(tip, angle, o, i + 1, fresh + 1)
                      hl == h + 1
                      hr == h - 1
                  IN [tip |-> << <<r[1] + StepX(hl), r[2] + StepY(hl), r[3], r[4] + 1>>,
                                 <<r[1] + StepX(hr), r[2] + StepY(hr), fresh, r[4] + 1>> >>
                                 \o rest.tip,
                      angle |-> <<hl, hr>> \o rest.angle]
              [] OTHER -> Grow(tip, angle, o, i + 1, fresh)

\* br.branching(prob, tip, angle, coords, min_angle, rad_termin) for the
\* outcomes o drawn by the tips
branching(p, tip, angle, coords, min_angle, rad_termin, o) ==
    LET ids == {coords[i][3] : i \in 1..Len(coords)}
               \cup {tip[i][3] : i \in 1..Len(tip)}
    IN Grow(tip, angle, o, 1, Max(ids) + 1)

\* some stable-history point lies within rad_avoid (tenths of lstep) of row r
Near(r, coords_till, rad_avoid) ==
    \E j \in 1..Len(coords_till) :
        100 * ((r[1] - coords_till[j][1]) * (r[1] - coords_till[j][1])
             + (r[2] - coords_till[j][2]) * (r[2] - coords_till[j][2]))
          <= rad_avoid * rad_avoid

\* br.guidance_avoidance(tip, angle, coord_last, coords_till, fc, fs, rad_avoid):
\* positions untouched, every heading turned by the guidance strength and,
\* where stable-history points are in range, by the self-interaction strength
guidance_avoidance(tip, angle, coord_last, coords_till, gc, gs, rad_avoid) ==
    [tip |-> tip,
     angle |-> [i \in 1..Len(tip) |->
                   angle[i] + gc
                   + (IF Near(tip[i], coords_till, rad_avoid) THEN gs ELSE 0)]]

\* ------------------------------------------------------------ Tissue
\* variant: the arguments are stored one position off, min_angle as prob
TissueInit_Misplaced(p, tip, angle, min_angle, rad_avoid, rad_termin) ==
    [tip |-> tip, angle |-> angle, min_angle |-> p,
     rad_avoid |-> rad_avoid, rad_termin |-> rad_termin, prob |-> min_angle]

\* Tissue.__init__ (min_angle in tenths of a quarter turn, radii in tenths
\* of lstep): the arguments are stored as given
TissueInit(p, tip, angle, min_angle, rad_avoid, rad_termin) ==
    [tip |-> tip, angle |-> angle, min_angle |-> min_angle,
     rad_avoid |-> rad_avoid, rad_termin |-> rad_termin, prob |-> p]

\* variant: the tips of before the call are kept beside the new ones
TissueEvolve_KeepsOld(self, coords, o) ==
    LET updated_info == branching(self.prob, self.tip, self.angle, coords,
                                  self.min_angle, self.rad_termin, o)
    IN [self EXCEPT !.tip = self.tip \o updated_info.tip,
                    !.angle = self.angle \o updated_info.angle]

\* Tissue.evolve(coords)
TissueEvolve(self, coords, o) ==
    LET updated_info == branching(self.prob, self.tip, self.angle, coords,
                                  self.min_angle, self.rad_termin, o)
    IN [self EXCEPT !.tip = updated_info.tip, !.angle = updated_info.angle]

\* variant: the call also advances the tips by a step
TissueGuidance_MovesTips(self, coord_last, coords_till, gc, gs) ==
    LET updated_info == guidance_avoidance(self.tip, self.angle, coord_last,
                                           coords_till, gc, gs, self.rad_avoid)
    IN [self EXCEPT !.tip = [i \in 1..Len(self.tip) |->
                                <<self.tip[i][1] + StepX(self.angle[i]),
                                  self.tip[i][2] + StepY(self.angle[i]),
                                  self.tip[i][3], self.tip[i][4]>>],
                    !.angle = updated_info.angle]

\* Tissue.guidance(coord_last, coords_till, fc, fs)
TissueGuidance(self, coord_last, coords_till, gc, gs) ==
    LET updated_info == guidance_avoidance(self.tip, self.angle, coord_last,
                                           coords_till, gc, gs, self.rad_avoid)
    IN [self EXCEPT !.tip = updated_info.tip, !.angle = updated_info.angle]

\* ------------------------------------------------------ simulation_loop
\* variant: the headings are reduced modulo a full turn without the shift
Normalise_Unsigned(h) == h % (2 * PI)

\* angle = (neuron.angle+np.pi) % (2*np.pi) - np.pi
Normalise(h) == ((h + PI) % (2 * PI)) - PI

\* variant: the branch column is stacked in place of the last column
AngleRows_BranchColumn(self) ==
    np_column_stack([i \in 1..Len(self.angle) |-> np_degrees(Normalise(self.angle[i]))],
                    [i \in 1..Len(self.tip) |-> self.tip[i][3]])

\* np.column_stack((np.degrees(angle), neuron.tip[:,-1]))
AngleRows(self) ==
    np_column_stack([i \in 1..Len(self.angle) |-> np_degrees(Normalise(self.angle[i]))],
                    LastColumn(self.tip))

\* variant: one entry of 1 per step in place of the number of tips
AppendCount_OnePerStep(counts, self) == Append(counts, 1)

\* last_tiplength_fin = np.append(last_tiplength_fin, len(neuron.tip))
AppendCount(counts, self) == Append(counts, Len(self.tip))

\* variant: the new rows are put in front of the history
AppendPoints_Front(coords, self) == np_append(self.tip, coords)

\* coordinates = np.append(coordinates, np.array(neuron.tip), axis=0)
AppendPoints(coords, self) == np_append(coords, self.tip)

\* variant: the recent window spans the last two steps
LastWindow_TwoSteps(coords, counts) == SliceLast(coords, np_sum(SliceLast(counts, 2)))

\* coords_last = coordinates[-int(np.sum(last_tiplength_fin[-1:])):]
LastWindow(coords, counts) == SliceLast(coords, np_sum(SliceLast(counts, 1)))

\* coords_until = coordinates[:-int(np.sum(last_tiplength_fin[-2:]))]
StableWindow(coords, counts) == SliceButLast(coords, np_sum(SliceLast(counts, 2)))

\* variant: the range includes its upper end
InRange_Inclusive(n, horizon) == n <= horizon

\* `for t in range(tmax)`: the range still holds the index n
InRange(n, horizon) == n < horizon

\* `if len(neuron.tip)>0:`
HasActiveTips(self) == Len(self.tip) > 0

\* variant: the loop is never left early
NoActiveTips_Never(self) == FALSE

\* `if len(neuron.tip)==0: break`
NoActiveTips(self) == Len(self.tip) = 0

\* variant: the window is recomputed one step early
WindowMoves_Early(n) == n > 1

\* `if t>2:`
WindowMoves(n) == n > 2

Init ==
    /\ prob \in ProbSet
    /\ fc \in FcSet
    /\ fs \in FsSet
    /\ tmax \in TmaxSet
    /\ neuron = TissueInit(prob, << <<start_x, start_y, 0, 1>> >>, <<PI \div 2>>,
                           2, 30, 15)
    /\ coordinates = <<neuron.tip[1]>>
    /\ coords_last = <<>>
    /\ coords_until = coordinates
    /\ angle_list = << <<PI \div 2, 0>> >>
    /\ last_tiplength_fin = <<Len(neuron.tip)>>
    /\ t = 0 - 1
    /\ pc = "for"
    /\ calls = <<>>
    /\ drawn = <<>>
    /\ d = <<>>

\* `for t in range(tmax):` takes the next index, or the loop is exhausted
ForNext ==
    /\ pc = "for"
    /\ IF InRange(t + 1, tmax)
       THEN /\ t' = t + 1
            /\ pc' = "if"
       ELSE /\ t' = t
            /\ pc' = "return"
    /\ UNCHANGED <<prob, fc, fs, tmax, neuron, coordinates, coords_last,
                   coords_until, angle_list, last_tiplength_fin, calls, drawn, d>>

\* `if len(neuron.tip)>0:`
IfActive ==
    /\ pc = "if"
    /\ pc' = IF HasActiveTips(neuron) THEN "evolve" ELSE "break"
    /\ UNCHANGED <<prob, fc, fs, tmax, neuron, coordinates, coords_last,
                   coords_until, angle_list, last_tiplength_fin, t, calls, drawn, d>>

\* variant: the growth call is left out of the step
CallEvolve_Skipped ==
    /\ pc = "evolve"
    /\ pc' = "guidance"
    /\ UNCHANGED <<prob, fc, fs, tmax, neuron, coordinates, coords_last,
                   coords_until, angle_list, last_tiplength_fin, t, calls, drawn, d>>

\* neuron.evolve(coordinates)
CallEvolve ==
    /\ pc = "evolve"
    /\ \E o \in [1..Len(neuron.tip) -> Outcomes(neuron.prob)] :
          /\ NewCount(o) <= MaxTips
          /\ neuron' = TissueEvolve(neuron, coordinates, o)
          /\ drawn' = Append(drawn, o)
    /\ calls' = Append(calls, "evolve")
    /\ pc' = "guidance"
    /\ UNCHANGED <<prob, fc, fs, tmax, coordinates, coords_last, coords_until,
                   angle_list, last_tiplength_fin, t, d>>

\* neuron.guidance(coords_last,coords_until,fc,fs)
CallGuidance ==
    /\ pc = "guidance"
    /\ neuron' = TissueGuidance(neuron, coords_last, coords_until, fc, fs)
    /\ calls' = Append(calls, "guidance")
    /\ pc' = "record"
    /\ UNCHANGED <<prob, fc, fs, tmax, coordinates, coords_last, coords_until,
                   angle_list, last_tiplength_fin, t, drawn, d>>

\* lines 152-161: the histories and the windows are updated
Record ==
    /\ pc = "record"
    /\ angle_list' = np_append(angle_list, AngleRows(neuron))
    /\ coordinates' = AppendPoints(coordinates, neuron)
    /\ last_tiplength_fin' = AppendCount(last_tiplength_fin, neuron)
    /\ coords_last' = LastWindow(coordinates', last_tiplength_fin')
    /\ coords_until' = IF WindowMoves(t)
                       THEN StableWindow(coordinates', last_tiplength_fin')
                       ELSE coords_until
    /\ pc' = "break"
    /\ UNCHANGED <<prob, fc, fs, tmax, neuron, t, calls, drawn, d>>

\* `if len(neuron.tip)==0: break`
BreakTest ==
    /\ pc = "break"
    /\ pc' = IF NoActiveTips(neuron) THEN "return" ELSE "for"
    /\ UNCHANGED <<prob, fc, fs, tmax, neuron, coordinates, coords_last,
                   coords_until, angle_list, last_tiplength_fin, t, calls, drawn, d>>

\* lines 167-172: the record is built and returned
Return ==
    /\ pc = "return"
    /\ d' = <<[coordinates |-> coordinates, angles |-> angle_list,
               evolve |-> last_tiplength_fin]>>
    /\ pc' = "done"
    /\ UNCHANGED <<prob, fc, fs, tmax, neuron, coordinates, coords_last,
                   coords_until, angle_list, last_tiplength_fin, t, calls, drawn>>

Next ==
    \/ ForNext
    \/ IfActive
    \/ CallEvolve
    \/ CallGuidance
    \/ Record
    \/ BreakTest
    \/ Return

Spec == Init /\ [][Next]_vars

\* neuron.evolve(coordinates), whatever number of tips it leaves
CallEvolveUncapped ==
    /\ pc = "evolve"
    /\ \E o \in [1..Len(neuron.tip) -> Outcomes(neuron.prob)] :
          /\ neuron' = TissueEvolve(neuron, coordinates, o)
          /\ drawn' = Append(drawn, o)
    /\ calls' = Append(calls, "evolve")
    /\ pc' = "guidance"
    /\ UNCHANGED <<prob, fc, fs, tmax, coordinates, coords_last, coords_until,
                   angle_list, last_tiplength_fin, t, d>>

\* the runs of at most MaxWideT steps
InitWide == Init /\ tmax <= MaxWideT

NextWide ==
    \/ ForNext
    \/ IfActive
    \/ CallEvolveUncapped
    \/ CallGuidance
    \/ Record
    \/ BreakTest
    \/ Return

\* short runs in which the number of tips is not capped
SpecWide == InitWide /\ [][NextWide]_vars

\* ------------------------------------------------------------ properties
IsPrefix(a, b) == Len(a) <= Len(b) /\ SubSeq(b, 1, Len(a)) = a

\* the entry of the active-count series written by the latest recorded step
LastCount == last_tiplength_fin[Len(last_tiplength_fin)]

\* the run has returned its record
Returned == pc = "done" /\ d # <<>>

\* C1: the entries of evolve sum to the number of rows of coordinates, after
\* any number of executed steps and in the returned record.
C1_SumEvolveIsRowCount ==
    /\ np_sum(last_tiplength_fin) = Len(coordinates)
    /\ d # <<>> => np_sum(d[1].evolve) = Len(d[1].coordinates)

\* a run that branched and later lost a tip has returned
C1_Witness ==
    /\ Returned
    /\ Len(d[1].coordinates) >= 5
    /\ \E i, j \in 1..Len(d[1].evolve) :
          i < j /\ d[1].evolve[i] = 2 /\ d[1].evolve[j] = 1

\* no step before the last possible one produced zero active tips
NoEarlyZero(ev, horizon) ==
    \A i \in 2..Len(ev) : i <= horizon => ev[i] # 0

\* C2 (as claimed): for tmax >= 1 the returned evolve has at most tmax
\* entries, and exactly tmax when no step produced zero tips early.
C2_Original ==
    (Returned /\ tmax >= 1) =>
        /\ Len(d[1].evolve) <= tmax
        /\ NoEarlyZero(d[1].evolve, tmax) => Len(d[1].evolve) = tmax

\* C2 (amended): the initial count is an entry of its own, so for tmax >= 1
\* the returned evolve has at most tmax + 1 entries, and exactly tmax + 1
\* when no step produced zero tips before tmax steps were executed.
C2_Amended ==
    (Returned /\ tmax >= 1) =>
        /\ Len(d[1].evolve) <= tmax + 1
        /\ NoEarlyZero(d[1].evolve, tmax) => Len(d[1].evolve) = tmax + 1

\* a full-length run and, for the same horizon, the early stop are both
\* covered; the witness is the full-length run
C2_Witness ==
    /\ Returned
    /\ tmax >= 3
    /\ NoEarlyZero(d[1].evolve, tmax)
    /\ Len(d[1].evolve) = tmax + 1

\* every entry of a count series except the last is at least 1
ZeroOnlyLast(ev) == \A i \in 1..(Len(ev) - 1) : ev[i] >= 1

\* the latest recorded step left zero active tips
Extinct == LastCount = 0

\* C3: once a step leaves zero active tips the run stops: the loop goes
\* straight to the return, no later iteration starts, no call is made and
\* nothing is appended; so a 0 occurs in evolve only as its last entry.
C3_StopsAtZero ==
    /\ [](ZeroOnlyLast(last_tiplength_fin) /\ (d # <<>> => ZeroOnlyLast(d[1].evolve)))
    /\ [][Extinct =>
            /\ pc' \in {"return", "done"}
            /\ t' = t
            /\ calls' = calls
            /\ coordinates' = coordinates
            /\ angle_list' = angle_list
            /\ last_tiplength_fin' = last_tiplength_fin]_vars

\* a run stopped early by extinction has returned its record
C3_Witness ==
    /\ Returned
    /\ Extinct
    /\ Len(d[1].evolve) >= 3
    /\ Len(d[1].evolve) < tmax + 1

\* C4 (as claimed): at every guidance call coords_until holds no row of the
\* two most recent recorded steps (the seed being the step before step 0).
C4_StableExcludesLastTwo ==
    pc = "guidance" =>
        /\ IsPrefix(coords_until, coordinates)
        /\ Len(coords_until)
             <= Len(coordinates) - np_sum(SliceLast(last_tiplength_fin, 2))

\* C5 (as claimed): at every guidance call coords_last is the last
\* evolve[-1] rows of coordinates (at t = 0 the seed row).
C5_Original ==
    pc = "guidance" =>
        coords_last = SubSeq(coordinates, Len(coordinates) - LastCount + 1,
                             Len(coordinates))

\* C5 (amended): at the guidance call of every step t >= 1 coords_last is
\* the last evolve[-1] rows of coordinates, the block appended by step t-1;
\* at t = 0 it is the empty array.
C5_Amended ==
    pc = "guidance" =>
        IF t = 0 THEN coords_last = <<>>
        ELSE /\ LastCount >= 1
             /\ coords_last = SubSeq(coordinates, Len(coordinates) - LastCount + 1,
                                     Len(coordinates))

\* guidance is about to be called after a step that recorded two tips
C5_Witness ==
    /\ pc = "guidance"
    /\ t >= 2
    /\ LastCount = 2
    /\ Len(coords_last) = 2

\* the arguments are outside the domain the specification allows
InvalidParameter == prob < 0 \/ prob > ProbDen \/ tmax <= 0

\* C6 (as claimed): with p outside [0,1] or tmax <= 0 the run fails before
\* the first iteration: no controller call is made and nothing is returned.
C6_FailsFast ==
    InvalidParameter => calls = <<>> /\ d = <<>>

\* C7: the histories are append-only: every step leaves coordinates, angles
\* and evolve as prefixes of their new values.
C7_AppendOnly ==
    [][/\ IsPrefix(coordinates, coordinates')
       /\ IsPrefix(angle_list, angle_list')
       /\ IsPrefix(last_tiplength_fin, last_tiplength_fin')]_vars

\* three steps have been recorded, one of them with two tips
C7_Witness ==
    /\ pc = "break"
    /\ Len(last_tiplength_fin) >= 4
    /\ Len(coordinates) >= 5

\* C8: angles and coordinates have the same number of rows, and from the
\* second row on the generation in angles[i] is the last column of
\* coordinates[i].
C8_AnglesAligned ==
    /\ Len(angle_list) = Len(coordinates)
    /\ \A i \in 2..Len(coordinates) :
          angle_list[i][2] = coordinates[i][Len(coordinates[i])]

\* rows of a second generation have been recorded
C8_Witness ==
    /\ pc = "break"
    /\ \E i \in 2..Len(coordinates) : coordinates[i][4] >= 3
    /\ \E i \in 2..Len(coordinates) : coordinates[i][3] >= 1

\* the rows of angles written by the step that has just been recorded
FreshAngleRow(k) == angle_list[Len(angle_list) - Len(neuron.angle) + k]

\* C9 (as claimed): every recorded heading lies in (-180, 180] degrees.
C9_Original ==
    \A i \in 2..Len(angle_list) :
        0 - 180 < angle_list[i][1] /\ angle_list[i][1] <= 180

\* C9 (amended): every recorded heading lies in [-180, 180) degrees and is
\* congruent to the heading guidance returned; a heading congruent to pi is
\* recorded as -180 and +180 is never recorded.
C9_Amended ==
    /\ \A i \in 2..Len(angle_list) :
          0 - 180 <= angle_list[i][1] /\ angle_list[i][1] < 180
    /\ pc = "break" =>
          \A k \in 1..Len(neuron.angle) :
              /\ (FreshAngleRow(k)[1] - np_degrees(neuron.angle[k])) % 360 = 0
              /\ neuron.angle[k] % (2 * PI) = PI => FreshAngleRow(k)[1] = 0 - 180

\* a heading congruent to pi, beyond the first turn, has just been recorded
C9_Witness ==
    /\ pc = "break"
    /\ \E k \in 1..Len(neuron.angle) :
          /\ neuron.angle[k] % (2 * PI) = PI
          /\ neuron.angle[k] > PI
          /\ FreshAngleRow(k)[1] = 0 - 180

\* C10: the controller calls alternate evolve, guidance, ... starting with
\* evolve, one pair per recorded step, and the histories are appended to
\* only after the pair of the step has been made.
C10_CallsAlternate ==
    /\ \A i \in 1..Len(calls) :
          calls[i] = IF i % 2 = 1 THEN "evolve" ELSE "guidance"
    /\ Len(calls) = 2 * (Len(last_tiplength_fin) - 1)
                    + (CASE pc = "guidance" -> 1 [] pc = "record" -> 2 [] OTHER -> 0)

\* a run of at least three steps has returned
C10_Witness ==
    /\ Returned
    /\ Len(calls) >= 6
\* C11: with tmax = 0 no controller call is made and the run returns the
\* record of the seed alone: one coordinate row, evolve = [1] and the one
\* initial angle entry.
C11_ZeroHorizon ==
    tmax = 0 =>
        /\ calls = <<>>
        /\ pc \in {"for", "return", "done"}
        /\ pc = "done" =>
              d = <<[coordinates |-> << <<start_x, start_y, 0, 1>> >>,
                     angles |-> << <<PI \div 2, 0>> >>,
                     evolve |-> <<1>>]>>

\* the run with tmax = 0 has returned
C11_Witness ==
    /\ tmax = 0
    /\ Returned
    /\ Len(d[1].coordinates) = 1

\* no tip has drawn a termination so far
NeverTerminated ==
    \A j \in 1..Len(drawn) : \A i \in 1..Len(drawn[j]) : drawn[j][i] # "T"

\* C12: with p = 0 every entry of evolve is 1 except possibly a final 0,
\* and a run of tmax >= 0 steps whose tip is never terminated returns
\* tmax + 1 coordinate rows.
C12_SingleStrand ==
    prob = 0 =>
        /\ \A i \in 1..(Len(last_tiplength_fin) - 1) : last_tiplength_fin[i] = 1
        /\ LastCount \in {0, 1}
        /\ (Returned /\ tmax >= 0 /\ NeverTerminated) =>
              /\ Len(d[1].coordinates) = tmax + 1
              /\ \A i \in 1..Len(d[1].evolve) : d[1].evolve[i] = 1

\* an unbranched walk of the full horizon has returned
C12_Witness ==
    /\ prob = 0
    /\ Returned
    /\ tmax >= 4
    /\ NeverTerminated
    /\ Len(d[1].coordinates) = tmax + 1
RECURSIVE Pow2(_)
Pow2(k) == IF k = 0 THEN 1 ELSE 2 * Pow2(k - 1)

\* no tip drew a termination in the first k evolve calls
NoneTerminatedUpTo(k) ==
    \A j \in 1..k : \A i \in 1..Len(drawn[j]) : drawn[j][i] # "T"

\* C13: the active-tip count at most doubles per step, so evolve[k] <= 2^k;
\* with p = 1 and no termination in steps 1..k, evolve[k] = 2^k
\* (evolve[k] is last_tiplength_fin[k + 1]).
C13_Doubling ==
    /\ \A k \in 1..(Len(last_tiplength_fin) - 1) :
          last_tiplength_fin[k + 1] <= 2 * last_tiplength_fin[k]
    /\ \A k \in 0..(Len(last_tiplength_fin) - 1) :
          /\ last_tiplength_fin[k + 1] <= Pow2(k)
          /\ (prob = ProbDen /\ NoneTerminatedUpTo(k)) =>
                last_tiplength_fin[k + 1] = Pow2(k)

\* with p = 1 three steps without a termination have been recorded
C13_Witness ==
    /\ prob = ProbDen
    /\ Len(last_tiplength_fin) = 4
    /\ NoneTerminatedUpTo(3)
    /\ last_tiplength_fin = <<1, 2, 4, 8>>
\* C15: a guidance call leaves the tip collection as the preceding evolve
\* call left it and keeps the length of the heading collection.
C15_GuidanceKeepsTips ==
    [][pc = "guidance" =>
          /\ neuron'.tip = neuron.tip
          /\ Len(neuron'.angle) = Len(neuron.angle)
          /\ Len(neuron'.angle) = Len(neuron'.tip)]_vars

\* guidance has just turned the headings of two tips
C15_Witness ==
    /\ pc = "record"
    /\ fc = 1
    /\ t >= 1
    /\ Len(neuron.tip) = 2
    /\ Len(neuron.angle) = 2

\* C16 (as claimed): the seed row of angles holds the seed heading in
\* degrees and the generation label of the seed row of coordinates.
C16_SeedAngleRow ==
    angle_list[1] = <<np_degrees(PI \div 2), coordinates[1][Len(coordinates[1])]>>

\* C17: at the guidance calls of steps 0..3 coords_until is the one-row seed
\* array; at every later step t it is coordinates without the rows that
\* steps t-1 and t-2 appended.
C17_StableWindow ==
    pc = "guidance" =>
        IF t <= 3
        THEN coords_until = << <<start_x, start_y, 0, 1>> >>
        ELSE coords_until =
                SubSeq(coordinates, 1,
                       Len(coordinates)
                         - last_tiplength_fin[Len(last_tiplength_fin)]
                         - last_tiplength_fin[Len(last_tiplength_fin) - 1])

\* guidance is about to be called at step 4 with a window beyond the seed
C17_Witness ==
    /\ pc = "guidance"
    /\ t = 4
    /\ Len(coords_until) >= 3
    /\ Len(coords_until) < Len(coordinates) - 2
====
